---- MODULE Spec2Model ----
(***************************************************************************)
(* A model of faderport.py: the button registry, the fader codec, the      *)
(* inbound message dispatcher (FaderPort._message_callback) and the        *)
(* session's control operations.                                           *)
(*                                                                         *)
(* Strings are sequences of one-character strings, so that str.title(),    *)
(* str.lower() and str.startswith() are computed character by character.   *)
(* Python ints are unbounded, and so are the integers here.                *)
(***************************************************************************)
EXTENDS Integers, Sequences, FiniteSets, TLC

VARIABLES
    inport,     \* self.inport:  [name, open]; NoPort while None
    outport,    \* self.outport: [name, open]; NoPort while None
    callback,   \* self.inport.callback is self._message_callback
    _fader,     \* self._fader
    _msb,       \* self._msb
    trace,      \* what the last operation did, in order: its hook calls, the
                \* messages it sent on outport and the lines it printed
    err,        \* the exception the last operation raised, "none" if none
    last,       \* the last operation and its arguments
    pre,        \* _msb and _fader as they were before the last operation
    inlog,      \* the first MaxIn inbound messages since open()
    hooklog,    \* the hook calls since open(), while inlog is recorded
    lookup,     \* the last registry lookup and what it returned
    writer      \* the application thread inside the fader setter: the
                \* statement it is at, its argument and what it has sent

vars == <<inport, outport, callback, _fader, _msb, trace, err,
          last, pre, inlog, hooklog, lookup, writer>>

(***************************************************************************)
(* Integer operators of Python, on the values the code applies them to.    *)
(***************************************************************************)
RECURSIVE Pow2(_)
Pow2(n) == IF n = 0 THEN 1 ELSE 2 * Pow2(n - 1)

\* x << n
Shl(x, n) == x * Pow2(n)

\* x >> n (an arithmetic shift: it floors, as \div does)
Shr(x, n) == x \div Pow2(n)

\* a | b, for a, b >= 0
RECURSIVE BitOr(_, _)
BitOr(a, b) ==
    IF a = 0 THEN b
    ELSE IF b = 0 THEN a
    ELSE (IF a % 2 = 1 \/ b % 2 = 1 THEN 1 ELSE 0) + 2 * BitOr(a \div 2, b \div 2)

\* a & b, for a, b >= 0
RECURSIVE BitAnd(_, _)
BitAnd(a, b) ==
    IF a = 0 \/ b = 0 THEN 0
    ELSE (IF a % 2 = 1 /\ b % 2 = 1 THEN 1 ELSE 0) + 2 * BitAnd(a \div 2, b \div 2)

(***************************************************************************)
(* String operators of Python.                                             *)
(***************************************************************************)
LowerCase == <<"a","b","c","d","e","f","g","h","i","j","k","l","m",
               "n","o","p","q","r","s","t","u","v","w","x","y","z">>
UpperCase == <<"A","B","C","D","E","F","G","H","I","J","K","L","M",
               "N","O","P","Q","R","S","T","U","V","W","X","Y","Z">>

IndexIn(c, alphabet) ==
    IF \E i \in DOMAIN alphabet : alphabet[i] = c
    THEN CHOOSE i \in DOMAIN alphabet : alphabet[i] = c
    ELSE 0

IsCased(c) == IndexIn(c, LowerCase) > 0 \/ IndexIn(c, UpperCase) > 0

lower_char(c) ==
    IF IndexIn(c, UpperCase) > 0 THEN LowerCase[IndexIn(c, UpperCase)] ELSE c

upper_char(c) ==
    IF IndexIn(c, LowerCase) > 0 THEN UpperCase[IndexIn(c, LowerCase)] ELSE c

\* str.lower()
lower(s) == [i \in DOMAIN s |-> lower_char(s[i])]

\* str.upper()
upper(s) == [i \in DOMAIN s |-> upper_char(s[i])]

\* str.capitalize(): the first character upper-cased, the rest lower-cased
title_capitalize(s) ==
    [i \in DOMAIN s |-> IF i = 1 THEN upper_char(s[i]) ELSE lower_char(s[i])]

\* str.title(): a cased character is upper-cased when the character before
\* it is not cased (or there is none), and lower-cased otherwise
title(s) ==
    [i \in DOMAIN s |->
        IF i = 1 \/ ~IsCased(s[i - 1]) THEN upper_char(s[i]) ELSE lower_char(s[i])]

\* str.startswith(prefix)
startswith(s, prefix) ==
    /\ Len(prefix) <= Len(s)
    /\ \A i \in DOMAIN prefix : s[i] = prefix[i]

(***************************************************************************)
(* The button registry.                                                    *)
(***************************************************************************)
\* Python's None, where a Button is expected
NoneButton == [name |-> <<>>, press |-> -1, light |-> -1]

BUTTONS_dup_press == <<
    [name |-> <<"M","u","t","e">>, press |-> 18, light |-> 21],
    [name |-> <<"S","o","l","o">>, press |-> 17, light |-> 22],
    [name |-> <<"R","e","c">>, press |-> 16, light |-> 23],
    [name |-> <<"O","u","t","p","u","t">>, press |-> 22, light |-> 17],
    [name |-> <<"C","h","a","n"," ","U","p">>, press |-> 21, light |-> 18],
    [name |-> <<"B","a","n","k">>, press |-> 20, light |-> 19],
    [name |-> <<"C","h","a","n"," ","D","o","w","n">>, press |-> 19, light |-> 20],
    [name |-> <<"R","e","a","d">>, press |-> 10, light |-> 13],
    [name |-> <<"W","r","i","t","e">>, press |-> 9, light |-> 14],
    [name |-> <<"T","o","u","c","h">>, press |-> 8, light |-> 15],
    [name |-> <<"O","f","f">>, press |-> 23, light |-> 16],
    [name |-> <<"U","n","d","o">>, press |-> 14, light |-> 9],
    [name |-> <<"T","r","n","s">>, press |-> 13, light |-> 10],
    [name |-> <<"P","r","o","j">>, press |-> 12, light |-> 11],
    [name |-> <<"M","i","x">>, press |-> 11, light |-> 12],
    [name |-> <<"S","h","i","f","t">>, press |-> 2, light |-> 5],
    [name |-> <<"P","u","n","c","h">>, press |-> 1, light |-> 6],
    [name |-> <<"U","s","e","r">>, press |-> 0, light |-> 7],
    [name |-> <<"L","o","o","p">>, press |-> 15, light |-> 8],
    [name |-> <<"R","e","c","o","r","d">>, press |-> 7, light |-> 0],
    [name |-> <<"P","l","a","y">>, press |-> 6, light |-> 1],
    [name |-> <<"S","t","o","p">>, press |-> 5, light |-> 2],
    [name |-> <<"F","a","s","t"," ","F","w","d">>, press |-> 4, light |-> 3],
    [name |-> <<"R","e","w","i","n","d">>, press |-> 4, light |-> 4]
>>

BUTTONS_with_127 == <<
    [name |-> <<"M","u","t","e">>, press |-> 18, light |-> 21],
    [name |-> <<"S","o","l","o">>, press |-> 17, light |-> 22],
    [name |-> <<"R","e","c">>, press |-> 16, light |-> 23],
    [name |-> <<"O","u","t","p","u","t">>, press |-> 22, light |-> 17],
    [name |-> <<"C","h","a","n"," ","U","p">>, press |-> 21, light |-> 18],
    [name |-> <<"B","a","n","k">>, press |-> 20, light |-> 19],
    [name |-> <<"C","h","a","n"," ","D","o","w","n">>, press |-> 19, light |-> 20],
    [name |-> <<"R","e","a","d">>, press |-> 10, light |-> 13],
    [name |-> <<"W","r","i","t","e">>, press |-> 9, light |-> 14],
    [name |-> <<"T","o","u","c","h">>, press |-> 127, light |-> 15],
    [name |-> <<"O","f","f">>, press |-> 23, light |-> 16],
    [name |-> <<"U","n","d","o">>, press |-> 14, light |-> 9],
    [name |-> <<"T","r","n","s">>, press |-> 13, light |-> 10],
    [name |-> <<"P","r","o","j">>, press |-> 12, light |-> 11],
    [name |-> <<"M","i","x">>, press |-> 11, light |-> 12],
    [name |-> <<"S","h","i","f","t">>, press |-> 2, light |-> 5],
    [name |-> <<"P","u","n","c","h">>, press |-> 1, light |-> 6],
    [name |-> <<"U","s","e","r">>, press |-> 0, light |-> 7],
    [name |-> <<"L","o","o","p">>, press |-> 15, light |-> 8],
    [name |-> <<"R","e","c","o","r","d">>, press |-> 7, light |-> 0],
    [name |-> <<"P","l","a","y">>, press |-> 6, light |-> 1],
    [name |-> <<"S","t","o","p">>, press |-> 5, light |-> 2],
    [name |-> <<"F","a","s","t"," ","F","w","d">>, press |-> 4, light |-> 3],
    [name |-> <<"R","e","w","i","n","d">>, press |-> 3, light |-> 4]
>>

BUTTONS == <<
    [name |-> <<"M","u","t","e">>, press |-> 18, light |-> 21],
    [name |-> <<"S","o","l","o">>, press |-> 17, light |-> 22],
    [name |-> <<"R","e","c">>, press |-> 16, light |-> 23],
    [name |-> <<"O","u","t","p","u","t">>, press |-> 22, light |-> 17],
    [name |-> <<"C","h","a","n"," ","U","p">>, press |-> 21, light |-> 18],
    [name |-> <<"B","a","n","k">>, press |-> 20, light |-> 19],
    [name |-> <<"C","h","a","n"," ","D","o","w","n">>, press |-> 19, light |-> 20],
    [name |-> <<"R","e","a","d">>, press |-> 10, light |-> 13],
    [name |-> <<"W","r","i","t","e">>, press |-> 9, light |-> 14],
    [name |-> <<"T","o","u","c","h">>, press |-> 8, light |-> 15],
    [name |-> <<"O","f","f">>, press |-> 23, light |-> 16],
    [name |-> <<"U","n","d","o">>, press |-> 14, light |-> 9],
    [name |-> <<"T","r","n","s">>, press |-> 13, light |-> 10],
    [name |-> <<"P","r","o","j">>, press |-> 12, light |-> 11],
    [name |-> <<"M","i","x">>, press |-> 11, light |-> 12],
    [name |-> <<"S","h","i","f","t">>, press |-> 2, light |-> 5],
    [name |-> <<"P","u","n","c","h">>, press |-> 1, light |-> 6],
    [name |-> <<"U","s","e","r">>, press |-> 0, light |-> 7],
    [name |-> <<"L","o","o","p">>, press |-> 15, light |-> 8],
    [name |-> <<"R","e","c","o","r","d">>, press |-> 7, light |-> 0],
    [name |-> <<"P","l","a","y">>, press |-> 6, light |-> 1],
    [name |-> <<"S","t","o","p">>, press |-> 5, light |-> 2],
    [name |-> <<"F","a","s","t"," ","F","w","d">>, press |-> 4, light |-> 3],
    [name |-> <<"R","e","w","i","n","d">>, press |-> 3, light |-> 4]
>>

\* the last of the indices in S: in a dict comprehension a later entry
\* replaces an earlier one with the same key
LastIn(S) == CHOOSE i \in S : \A j \in S : j <= i

RecName == <<"R","e","c">>
RecArmName == <<"R","e","c"," ","A","r","m">>

\* {x.name: x for x in BUTTONS}, then the alias
_button_from_name ==
    LET byName == [k \in {BUTTONS[i].name : i \in DOMAIN BUTTONS} |->
                      BUTTONS[LastIn({i \in DOMAIN BUTTONS : BUTTONS[i].name = k})]]
    IN  [k \in DOMAIN byName \cup {RecArmName} |->
            IF k = RecArmName THEN byName[RecName] ELSE byName[k]]

\* {x.press: x for x in BUTTONS}
_button_from_press ==
    [k \in {BUTTONS[i].press : i \in DOMAIN BUTTONS} |->
        BUTTONS[LastIn({i \in DOMAIN BUTTONS : BUTTONS[i].press = k})]]

\* button_from_name(name) raises KeyError
button_from_name_raises(name) == title(name) \notin DOMAIN _button_from_name

\* button_from_name(name), where it returns
button_from_name(name) == _button_from_name[title(name)]

button_from_press_by_light(press) ==
    IF \E i \in DOMAIN BUTTONS : BUTTONS[i].light = press
    THEN BUTTONS[LastIn({i \in DOMAIN BUTTONS : BUTTONS[i].light = press})]
    ELSE NoneButton

\* button_from_press(press): _button_from_press.get(press, None)
button_from_press(press) ==
    IF press \in DOMAIN _button_from_press
    THEN _button_from_press[press]
    ELSE NoneButton

(***************************************************************************)
(* Messages, hook calls and the events of an operation.                    *)
(***************************************************************************)
polytouch(note, value) == [type |-> "polytouch", note |-> note, value |-> value]
control_change(control, value) ==
    [type |-> "control_change", control |-> control, value |-> value]
pitchwheel(pitch) == [type |-> "pitchwheel", pitch |-> pitch]
note_on(note, velocity) == [type |-> "note_on", note |-> note, velocity |-> velocity]
\* what outport.reset() sends is mido's business
reset_messages == [type |-> "reset"]

HookCall(h, b, f, n) == [hook |-> h, button |-> b, flag |-> f, num |-> n]
on_open == HookCall("on_open", NoneButton, FALSE, 0)
on_close == HookCall("on_close", NoneButton, FALSE, 0)
on_button(button, state) == HookCall("on_button", button, state, 0)
on_fader_touch(state) == HookCall("on_fader_touch", NoneButton, state, 0)
on_fader(value) == HookCall("on_fader", NoneButton, FALSE, value)
on_rotary(direction) == HookCall("on_rotary", NoneButton, FALSE, direction)

Hook(call) == [ev |-> "hook", call |-> call]
Send(msg) == [ev |-> "send", msg |-> msg]
Printed(msg) == [ev |-> "print", msg |-> msg]
Detach == [ev |-> "detach"]
ClosePort(which) == [ev |-> "close", port |-> which]

IsHook(e) == e.ev = "hook"
IsSend(e) == e.ev = "send"
IsPrinted(e) == e.ev = "print"

\* the hook calls, the sent messages and the printed lines of a trace
CallsOf(t) == LET h == SelectSeq(t, IsHook) IN [i \in DOMAIN h |-> h[i].call]
SentOf(t) == LET h == SelectSeq(t, IsSend) IN [i \in DOMAIN h |-> h[i].msg]
PrintedOf(t) == LET h == SelectSeq(t, IsPrinted) IN [i \in DOMAIN h |-> h[i].msg]

calls == CallsOf(trace)
sent == SentOf(trace)
diag == PrintedOf(trace)

(***************************************************************************)
(* FaderPort._message_callback.  self is [msb, fader]; the result is the   *)
(* new self and the trace of the call.                                     *)
(***************************************************************************)
FADER_TOUCH == 127
FIELD_A == 0
FIELD_B == 32

Outcome(self, t) == [msb |-> self.msb, fader |-> self.fader, trace |-> t]

\* msg.value != 0
pressed(value) == value # 0

\* if msg.type == 'polytouch': ...
Polytouch(self, msg) ==
    LET button == button_from_press(msg.note)
    IN  IF button # NoneButton
        THEN Outcome(self, <<Hook(on_button(button, pressed(msg.value)))>>)
        ELSE IF msg.note = FADER_TOUCH
        THEN Outcome(self, <<Hook(on_fader_touch(pressed(msg.value)))>>)
        ELSE Outcome(self, <<>>)

\* self._msb = msg.value, and also the fader is recombined and reported
FieldA_reports(self, msg) ==
    [msb |-> msg.value, fader |-> Shr(BitOr(Shl(msg.value, 7), 0), 4),
     trace |-> <<Hook(on_fader(Shr(BitOr(Shl(msg.value, 7), 0), 4)))>>]

\* self._msb = msg.value
FieldA(self, msg) == [Outcome(self, <<>>) EXCEPT !.msb = msg.value]

combine_unshifted(msb, value) == BitOr(Shl(msb, 7), value)

combine_shift_3(msb, value) == Shr(BitOr(Shl(msb, 7), value), 3)

\* (self._msb << 7 | msg.value) >> 4
combine(msb, value) == Shr(BitOr(Shl(msb, 7), value), 4)

\* self.on_fader(self._fader) before self._fader is assigned
FieldB_reports_old(self, msg) ==
    LET f == combine(self.msb, msg.value)
    IN  [Outcome(self, <<Hook(on_fader(self.fader))>>) EXCEPT !.fader = f]

\* the control 32 branch, forgetting the pending MSB once it is combined
FieldB_resets_msb(self, msg) ==
    LET f == combine(self.msb, msg.value)
    IN  [msb |-> 0, fader |-> f, trace |-> <<Hook(on_fader(f))>>]

\* self._fader = ...; self.on_fader(self._fader)
FieldB(self, msg) ==
    LET f == combine(self.msb, msg.value)
    IN  [Outcome(self, <<Hook(on_fader(f))>>) EXCEPT !.fader = f]

rotary_direction_zero_positive(pitch) == IF pitch <= 0 THEN 1 ELSE -1

\* 1 if msg.pitch < 0 else -1
rotary_direction(pitch) == IF pitch < 0 THEN 1 ELSE -1

\* self.on_rotary(...)
Rotary(self, msg) == Outcome(self, <<Hook(on_rotary(rotary_direction(msg.pitch)))>>)

\* print('Unhandled:', msg)
Unhandled(self, msg) == Outcome(self, <<Printed(msg)>>)

_message_callback(self, msg) ==
    IF msg.type = "polytouch" THEN Polytouch(self, msg)
    ELSE IF msg.type = "control_change" /\ msg.control = FIELD_A THEN FieldA(self, msg)
    ELSE IF msg.type = "control_change" /\ msg.control = FIELD_B THEN FieldB(self, msg)
    ELSE IF msg.type = "pitchwheel" THEN Rotary(self, msg)
    ELSE Unhandled(self, msg)

(***************************************************************************)
(* The control operations.                                                 *)
(***************************************************************************)
FADER_LIMIT == 1024
LSB_MASK == 127
MSB_SHIFT == 7

clamp_unbounded(value) == IF 0 < value THEN value ELSE 0

clamp_inclusive(value) == IF 0 <= value /\ value <= FADER_LIMIT THEN value ELSE 0

\* int(value) if 0 < value < 1024 else 0, for an int value
clamp(value) == IF 0 < value /\ value < FADER_LIMIT THEN value ELSE 0

fader_messages_swapped(f) ==
    <<Send(control_change(FIELD_B, BitAnd(f, LSB_MASK))),
      Send(control_change(FIELD_A, Shr(f, MSB_SHIFT)))>>

\* the two sends of the fader setter, for self._fader = f
fader_messages(f) ==
    <<Send(control_change(FIELD_A, Shr(f, MSB_SHIFT))),
      Send(control_change(FIELD_B, BitAnd(f, LSB_MASK)))>>

\* the fader setter
fader_setter(self, value) ==
    LET f == clamp(value)
    IN  [msb |-> self.msb, fader |-> f, trace |-> fader_messages(f)]

\* light_on(button), addressed to the button's press code
light_on_press_code(button) == <<Send(polytouch(button.press, 1))>>

\* light_on(button), light_off(button)
light_on(button) == <<Send(polytouch(button.light, 1))>>
light_off(button) == <<Send(polytouch(button.light, 0))>>

\* all_off(), all_on()
all_off == [i \in DOMAIN BUTTONS |-> light_off(BUTTONS[i])[1]]
all_on == [i \in DOMAIN BUTTONS |-> light_on(BUTTONS[i])[1]]

(***************************************************************************)
(* The character matrix and char_on.                                       *)
(***************************************************************************)
\* CHARACTERS, in the order of the source
CHARACTER_TABLE == <<
    [char |-> <<"0">>, glyph |-> <<0, 1, 3, 6, 7, 9, 10, 11, 13, 14, 15, 18, 20, 21, 22>>],
    [char |-> <<"1">>, glyph |-> <<1, 4, 5, 9, 12, 17, 19, 20, 21, 22>>],
    [char |-> <<"2">>, glyph |-> <<0, 1, 3, 6, 10, 12, 16, 19, 20, 21, 22, 23>>],
    [char |-> <<"3">>, glyph |-> <<0, 1, 3, 6, 9, 11, 15, 18, 20, 21, 22>>],
    [char |-> <<"4">>, glyph |-> <<1, 4, 5, 7, 9, 11, 12, 13, 14, 17, 20, 21>>],
    [char |-> <<"5">>, glyph |-> <<0, 1, 2, 6, 7, 8, 9, 11, 15, 18, 20, 21, 22>>],
    [char |-> <<"6">>, glyph |-> <<0, 1, 2, 6, 7, 8, 9, 11, 14, 15, 18, 20, 21, 22>>],
    [char |-> <<"7">>, glyph |-> <<3, 4, 5, 6, 10, 12, 16, 23>>],
    [char |-> <<"8">>, glyph |-> <<0, 1, 3, 6, 8, 9, 11, 14, 15, 18, 20, 21, 22>>],
    [char |-> <<"9">>, glyph |-> <<0, 1, 3, 6, 8, 9, 10, 11, 15, 18, 20, 21, 22>>],
    [char |-> <<"A">>, glyph |-> <<4, 5, 7, 10, 11, 12, 13, 14, 15, 18, 19, 23>>],
    [char |-> <<"B">>, glyph |-> <<4, 5, 6, 7, 10, 12, 13, 14, 15, 18, 20, 21, 22, 23>>],
    [char |-> <<"C">>, glyph |-> <<4, 5, 7, 10, 14, 15, 18, 20, 21, 22>>],
    [char |-> <<"D">>, glyph |-> <<4, 5, 6, 7, 10, 11, 14, 15, 18, 20, 21, 22, 23>>],
    [char |-> <<"E">>, glyph |-> <<4, 5, 6, 7, 13, 14, 15, 20, 21, 22, 23>>],
    [char |-> <<"F">>, glyph |-> <<4, 5, 6, 7, 13, 14, 15, 23>>]
>>

\* CHARACTERS: a dict display, where a later entry of a key replaces an
\* earlier one
CHARACTERS ==
    [c \in {CHARACTER_TABLE[i].char : i \in DOMAIN CHARACTER_TABLE} |->
        CHARACTER_TABLE[LastIn({i \in DOMAIN CHARACTER_TABLE :
                                   CHARACTER_TABLE[i].char = c})].glyph]

\* char_on(c) that turns every light off first
char_on_clears_first(c) ==
    IF upper(c) \in DOMAIN CHARACTERS
    THEN all_off \o [k \in DOMAIN CHARACTERS[upper(c)] |->
                       light_on(BUTTONS[CHARACTERS[upper(c)][k] + 1])[1]]
    ELSE <<>>

\* char_on(c); BUTTONS[i] of the source is BUTTONS[i + 1] here
char_on(c) ==
    IF upper(c) \in DOMAIN CHARACTERS
    THEN [k \in DOMAIN CHARACTERS[upper(c)] |->
             light_on(BUTTONS[CHARACTERS[upper(c)][k] + 1])[1]]
    ELSE <<>>

(***************************************************************************)
(* Channel selection, open() and close().                                  *)
(***************************************************************************)
\* Python's None, where a port name is expected
NoneName == <<"None">>

\* Python's None, where a port is expected
NoPort == [name |-> NoneName, open |-> FALSE]

FADERPORT == <<"f","a","d","e","r","p","o","r","t">>

IsFaderportName(i) == startswith(lower(i), FADERPORT)

\* find_faderport_input_name(number) and find_faderport_output_name(number),
\* names being what mido.get_input_names() or mido.get_output_names() returns
find_faderport_name(number, names) ==
    LET ins == SelectSeq(names, IsFaderportName)
    IN  IF 0 <= number /\ number < Len(ins) THEN ins[number + 1] ELSE NoneName

\* mido.open_input(name), mido.open_output(name): the named port, or with
\* name None the default port, which is the first one available; NoPort
\* stands for the IOError raised when there is none
mido_open(name, names) ==
    IF name # NoneName THEN [name |-> name, open |-> TRUE]
    ELSE IF names # <<>> THEN [name |-> names[1], open |-> TRUE]
    ELSE NoPort

Self == [msb |-> _msb, fader |-> _fader]

NoLookup == [kind |-> "none"]

\* no fader write is under way
Idle == [pc |-> "idle", value |-> 0, sent |-> <<>>]

\* the state __init__ leaves
Init ==
    /\ inport = NoPort
    /\ outport = NoPort
    /\ callback = FALSE
    /\ _fader = 0
    /\ _msb = 0
    /\ trace = <<>>
    /\ err = "none"
    /\ last = [op |-> "init"]
    /\ pre = [msb |-> 0, fader |-> 0]
    /\ inlog = <<>>
    /\ hooklog = <<>>
    /\ lookup = NoLookup
    /\ writer = Idle

\* open(number), with the port names the system reports; the session is
\* not open
Open(number, input_names, output_names) ==
    LET i == mido_open(find_faderport_name(number, input_names), input_names)
        o == mido_open(find_faderport_name(number, output_names), output_names)
    IN  /\ ~callback
        /\ last' = [op |-> "open", number |-> number,
                    ins |-> input_names, outs |-> output_names]
        /\ pre' = Self
        /\ UNCHANGED <<_fader, _msb, lookup, writer>>
        /\ inlog' = <<>>
        /\ IF i = NoPort
           THEN /\ err' = "IOError"
                /\ trace' = <<>>
                /\ hooklog' = <<>>
                /\ UNCHANGED <<inport, outport, callback>>
           ELSE IF o = NoPort
           THEN /\ err' = "IOError"
                /\ trace' = <<>>
                /\ hooklog' = <<>>
                /\ inport' = i
                /\ UNCHANGED <<outport, callback>>
           ELSE /\ err' = "none"
                /\ inport' = i
                /\ outport' = o
                /\ callback' = TRUE
                /\ trace' = <<Hook(on_open)>>
                /\ hooklog' = <<on_open>>

\* close() that turns the lights off before it resets the fader
Close_lights_first ==
    LET w == fader_setter(Self, 0)
    IN  /\ callback
        /\ last' = [op |-> "close"]
        /\ pre' = Self
        /\ trace' = <<Hook(on_close), Detach>> \o all_off \o w.trace
                    \o <<Send(reset_messages), ClosePort("inport"), ClosePort("outport")>>
        /\ callback' = FALSE
        /\ _fader' = w.fader
        /\ _msb' = w.msb
        /\ inport' = [inport EXCEPT !.open = FALSE]
        /\ outport' = [outport EXCEPT !.open = FALSE]
        /\ err' = "none"
        /\ inlog' = <<>>
        /\ hooklog' = <<>>
        /\ UNCHANGED <<lookup, writer>>

\* close(), on an open session
Close ==
    LET w == fader_setter(Self, 0)
    IN  /\ callback
        /\ last' = [op |-> "close"]
        /\ pre' = Self
        /\ trace' = <<Hook(on_close), Detach>> \o w.trace \o all_off
                    \o <<Send(reset_messages), ClosePort("inport"), ClosePort("outport")>>
        /\ callback' = FALSE
        /\ _fader' = w.fader
        /\ _msb' = w.msb
        /\ inport' = [inport EXCEPT !.open = FALSE]
        /\ outport' = [outport EXCEPT !.open = FALSE]
        /\ err' = "none"
        /\ inlog' = <<>>
        /\ hooklog' = <<>>
        /\ UNCHANGED <<lookup, writer>>

\* the transport delivers msg to the registered callback
Dispatch(msg) ==
    LET r == _message_callback(Self, msg)
    IN  /\ callback
        /\ last' = [op |-> "recv", msg |-> msg]
        /\ pre' = Self
        /\ _msb' = r.msb
        /\ _fader' = r.fader
        /\ trace' = r.trace
        /\ err' = "none"
        /\ UNCHANGED <<inport, outport, callback, lookup, writer>>

\* self.fader = value, on an open session
SetFader(value) ==
    LET w == fader_setter(Self, value)
    IN  /\ outport.open
        /\ last' = [op |-> "fader", value |-> value]
        /\ pre' = Self
        /\ _msb' = w.msb
        /\ _fader' = w.fader
        /\ trace' = w.trace
        /\ err' = "none"
        /\ UNCHANGED <<inport, outport, callback, lookup, writer>>

\* an operation that only sends
Lights(op, t) ==
    /\ outport.open
    /\ last' = op
    /\ pre' = Self
    /\ trace' = t
    /\ err' = "none"
    /\ UNCHANGED <<inport, outport, callback, _fader, _msb, lookup, writer>>

(***************************************************************************)
(* The inputs.                                                             *)
(***************************************************************************)
MidiThrough == <<"M","i","d","i">>
FaderPortName == <<"F","a","d","e","r","P","o","r","t">>

PortLists == {<<>>, <<MidiThrough, FaderPortName>>}
Numbers == {0}

\* 7-bit data values
FieldValues == {0, 10, 64, 127}
TouchValues == {0, 1, 127}
MAX_DATA == 127
Notes == 0..24 \cup {MAX_DATA - 1, MAX_DATA}
Pitches == {-8192, -5, 0, 5, 8191}
Controls == {FIELD_A, FIELD_B, 1, 64}

Inbound ==
    {polytouch(n, v) : n \in Notes, v \in TouchValues}
    \cup {control_change(c, v) : c \in Controls, v \in FieldValues}
    \cup {pitchwheel(p) : p \in Pitches}
    \cup {note_on(60, 64)}

WriteValues == {-1, 0, 1, 128, 1023, 1024}

(***************************************************************************)
(* The session: any sequence of operations.                                *)
(***************************************************************************)
OpenStep ==
    \E number \in Numbers, ins \in PortLists, outs \in PortLists :
        Open(number, ins, outs)

CloseStep == Close /\ TRUE

Receive == \E msg \in Inbound : Dispatch(msg) /\ UNCHANGED <<inlog, hooklog>>

Write == \E value \in WriteValues : SetFader(value) /\ UNCHANGED <<inlog, hooklog>>

LightOn ==
    \E i \in DOMAIN BUTTONS :
        /\ Lights([op |-> "light_on", button |-> BUTTONS[i]], light_on(BUTTONS[i]))
        /\ UNCHANGED <<inlog, hooklog>>

LightOff ==
    \E i \in DOMAIN BUTTONS :
        /\ Lights([op |-> "light_off", button |-> BUTTONS[i]], light_off(BUTTONS[i]))
        /\ UNCHANGED <<inlog, hooklog>>

CharInputs ==
    {<<c>> : c \in {"0","1","2","3","4","5","6","7","8","9",
                    "A","B","C","D","E","F","a","b","c","d","e","f",
                    "G","g","x"," "}}
    \cup {<<>>, <<"1","0">>}

CharOn ==
    \E c \in CharInputs :
        /\ Lights([op |-> "char_on", c |-> c], char_on(c))
        /\ UNCHANGED <<inlog, hooklog>>

AllOn == Lights([op |-> "all_on"], all_on) /\ UNCHANGED <<inlog, hooklog>>

AllOff == Lights([op |-> "all_off"], all_off) /\ UNCHANGED <<inlog, hooklog>>

Next ==
    \/ OpenStep
    \/ CloseStep
    \/ Receive
    \/ Write
    \/ LightOn
    \/ LightOff
    \/ CharOn
    \/ AllOn
    \/ AllOff

Spec == Init /\ [][Next]_vars

(***************************************************************************)
(* The decoder on every pair of fields: open, field A, field B.            *)
(***************************************************************************)
SystemPorts == <<MidiThrough, FaderPortName>>

NextDecode ==
    \/ /\ last.op = "init"
       /\ Open(0, SystemPorts, SystemPorts)
    \/ /\ last.op = "open"
       /\ \E m \in 0..MAX_DATA : Dispatch(control_change(FIELD_A, m))
       /\ UNCHANGED <<inlog, hooklog>>
    \/ /\ last.op = "recv"
       /\ last.msg.control = FIELD_A
       /\ \E b \in 0..MAX_DATA : Dispatch(control_change(FIELD_B, b))
       /\ UNCHANGED <<inlog, hooklog>>

SpecDecode == Init /\ [][NextDecode]_vars

(***************************************************************************)
(* The encoder on every value: open, some inbound fader fields, one write. *)
(***************************************************************************)
WriteSlack == 3

EncodeInbound ==
    {control_change(FIELD_A, MAX_DATA), control_change(FIELD_B, MAX_DATA)}

NextEncode ==
    \/ /\ last.op = "init"
       /\ Open(0, SystemPorts, SystemPorts)
    \/ /\ last.op \in {"open", "recv"}
       /\ \E msg \in EncodeInbound : Dispatch(msg)
       /\ UNCHANGED <<inlog, hooklog>>
    \/ /\ last.op \in {"open", "recv"}
       /\ \E value \in (0 - WriteSlack)..(FADER_LIMIT + WriteSlack) : SetFader(value)
       /\ UNCHANGED <<inlog, hooklog>>

SpecEncode == Init /\ [][NextEncode]_vars

(***************************************************************************)
(* The first MaxIn inbound messages of a session, with every hook call     *)
(* they cause.                                                             *)
(***************************************************************************)
MaxIn == 2

ScenarioInbound ==
    {control_change(c, v) : c \in {FIELD_A, FIELD_B}, v \in FieldValues}
    \cup {polytouch(FADER_TOUCH, 1), polytouch(0, 1), pitchwheel(-5)}

ReceiveLogged ==
    \E msg \in ScenarioInbound :
        /\ Len(inlog) < MaxIn
        /\ Dispatch(msg)
        /\ inlog' = Append(inlog, msg)
        /\ hooklog' = hooklog \o CallsOf(trace')

NextScenario ==
    \/ /\ last.op = "init"
       /\ Open(0, SystemPorts, SystemPorts)
    \/ ReceiveLogged

SpecScenario == Init /\ [][NextScenario]_vars

(***************************************************************************)
(* The registry's lookups, on names in several casings and on every code.  *)
(***************************************************************************)
UnknownNames ==
    {<<>>, <<"F","o","o">>, <<"M","u","t">>, <<"R","e","c","A","r","m">>,
     <<"R","e","c"," "," ","A","r","m">>}

NameInputs ==
    UNION {{k, lower(k), upper(k)} : k \in DOMAIN _button_from_name}
    \cup UnknownNames

\* button_from_name(name)
LookupOf(name) ==
    /\ lookup' = [kind |-> "name", name |-> name,
                  raised |-> button_from_name_raises(name),
                  button |-> IF button_from_name_raises(name) THEN NoneButton
                             ELSE button_from_name(name)]
    /\ err' = IF button_from_name_raises(name) THEN "KeyError" ELSE "none"
    /\ UNCHANGED <<inport, outport, callback, _fader, _msb, trace, last, pre, writer,
                   inlog, hooklog>>

LookupName == \E name \in NameInputs : LookupOf(name)

\* button_from_press(press)
LookupPress ==
    \E press \in 0..MAX_DATA :
        /\ lookup' = [kind |-> "press", press |-> press,
                      button |-> button_from_press(press)]
        /\ err' = "none"
        /\ UNCHANGED <<inport, outport, callback, _fader, _msb, trace, last, pre, writer,
                       inlog, hooklog>>

\* button_from_press(button_from_name(name).press)
RoundTrip ==
    \E name \in NameInputs :
        /\ ~button_from_name_raises(name)
        /\ lookup' = [kind |-> "roundtrip", name |-> name,
                      button |-> button_from_name(name),
                      back |-> button_from_press(button_from_name(name).press)]
        /\ err' = "none"
        /\ UNCHANGED <<inport, outport, callback, _fader, _msb, trace, last, pre, writer,
                       inlog, hooklog>>

NextRegistry == LookupName \/ LookupPress \/ RoundTrip

SpecRegistry == Init /\ [][NextRegistry]_vars

(***************************************************************************)
(* The properties.                                                         *)
(***************************************************************************)
Received(msg) == last.op = "recv" /\ last.msg = msg
ReceivedA == last.op = "recv" /\ last.msg.type = "control_change"
                 /\ last.msg.control = 0
ReceivedB == last.op = "recv" /\ last.msg.type = "control_change"
                 /\ last.msg.control = 32
ReceivedNote == last.op = "recv" /\ last.msg.type = "polytouch"
ReceivedPitch == last.op = "recv" /\ last.msg.type = "pitchwheel"
Untouched == _msb = pre.msb /\ _fader = pre.fader

\* C1: dispatching a control-change with control 32 and value b, the pending
\* MSB being m, sets the cached fader position to (m << 7 | b) >> 4 and calls
\* on_fader once with that position; it does nothing else.
C1_FieldBCombines ==
    ReceivedB =>
        LET position == Shr(BitOr(Shl(pre.msb, 7), last.msg.value), 4)
        IN  /\ _fader = position
            /\ trace = <<Hook(on_fader(position))>>

C1_Witness ==
    /\ ReceivedB
    /\ pre.msb = 127
    /\ last.msg.value = 127
    /\ _fader = 1023
    /\ calls = <<on_fader(1023)>>

\* the on_fader calls among the hook calls since open()
IsFaderCall(c) == c.hook = "on_fader"
FaderCalls == SelectSeq(hooklog, IsFaderCall)

C2_Scenario == inlog = <<control_change(0, 10), control_change(32, 64)>>

\* C2, as the spec states it: after open, field A with value 10 and then
\* field B with value 64 make exactly one on_fader call, with value 80.
C2_Original == C2_Scenario => FaderCalls = <<on_fader(80)>>

\* C2, amended: after open, field A with value 10 and then field B with
\* value 64 make exactly one on_fader call, with value (10 << 7 | 64) >> 4,
\* which is 84.
C2_Amended == C2_Scenario => FaderCalls = <<on_fader(84)>>

C2_Witness ==
    /\ C2_Scenario
    /\ hooklog = <<on_open, on_fader(84)>>
    /\ _fader = 84

\* C3: dispatching a control-change with control 0 stores its value as the
\* pending MSB, calls no hook (it does nothing that can be observed) and
\* leaves the cached fader position as it was.
C3_FieldAStores ==
    ReceivedA =>
        /\ _msb = last.msg.value
        /\ trace = <<>>
        /\ _fader = pre.fader

C3_Witness ==
    /\ Received(control_change(0, 10))
    /\ pre.msb = 127
    /\ pre.fader = 1023
    /\ _msb = 10
    /\ _fader = 1023

\* C4: a fader write of V in 1..1023 caches V and sends exactly two
\* messages, control 0 with value V >> 7 and then control 32 with value
\* V & 0x7F.
C4_WriteEncodes ==
    (last.op = "fader" /\ last.value \in 1..1023) =>
        /\ _fader = last.value
        /\ trace = <<Send(control_change(0, Shr(last.value, 7))),
                     Send(control_change(32, BitAnd(last.value, 127)))>>

C4_Witness ==
    /\ last.op = "fader"
    /\ last.value = 700
    /\ _fader = 700
    /\ sent = <<control_change(0, 5), control_change(32, 60)>>

\* C5: a fader write of a value outside the open interval (0, 1024) leaves
\* the cached fader position 0, sends control 0 with value 0 and then
\* control 32 with value 0, and raises nothing.
C5_WriteOutOfRange ==
    (last.op = "fader" /\ ~(0 < last.value /\ last.value < 1024)) =>
        /\ _fader = 0
        /\ trace = <<Send(control_change(0, 0)), Send(control_change(32, 0))>>
        /\ err = "none"

C5_Witness ==
    /\ last.op = "fader"
    /\ last.value = 1024
    /\ pre.fader = 1023
    /\ _fader = 0

PressCodes == {BUTTONS[i].press : i \in DOMAIN BUTTONS}

\* C6: dispatching a polytouch message whose note is the press code of a
\* registered button calls on_button once, with the button that
\* button_from_press(note) returns, which is the registered button with
\* that press code, and with pressed = (value != 0); it calls no other hook.
C6_ButtonEvent ==
    (ReceivedNote /\ \E i \in DOMAIN BUTTONS : BUTTONS[i].press = last.msg.note) =>
        /\ trace = <<Hook(on_button(button_from_press(last.msg.note),
                                    last.msg.value # 0))>>
        /\ button_from_press(last.msg.note).press = last.msg.note
        /\ \E i \in DOMAIN BUTTONS : BUTTONS[i] = button_from_press(last.msg.note)
        /\ Untouched

C6_Witness ==
    /\ Received(polytouch(0, 127))
    /\ calls = <<on_button([name |-> <<"U","s","e","r">>, press |-> 0, light |-> 7],
                           TRUE)>>

\* C7: a polytouch message whose note is 127 is never a button event: it
\* calls on_fader_touch once, with touched = (value != 0), and never
\* on_button, 127 being the press code of no registered button.
C7_FaderTouch ==
    (ReceivedNote /\ last.msg.note = 127) =>
        /\ trace = <<Hook(on_fader_touch(last.msg.value # 0))>>
        /\ \A i \in DOMAIN BUTTONS : BUTTONS[i].press # 127
        /\ button_from_press(127) = NoneButton

C7_Witness ==
    /\ Received(polytouch(127, 127))
    /\ calls = <<on_fader_touch(TRUE)>>

\* C8: dispatching a pitchwheel message calls on_rotary once, with
\* direction +1 when the pitch is negative and -1 otherwise (pitch 0
\* included), and changes neither the pending MSB nor the cached fader
\* position.
C8_Rotary ==
    ReceivedPitch =>
        /\ trace = <<Hook(on_rotary(IF last.msg.pitch < 0 THEN 1 ELSE -1))>>
        /\ Untouched

C8_Witness ==
    /\ Received(pitchwheel(0))
    /\ calls = <<on_rotary(-1)>>
    /\ pre.msb = 127
    /\ pre.fader = 1023

\* the five shapes the dispatcher knows
KnownShape(msg) ==
    \/ msg.type = "polytouch" /\ msg.note \in PressCodes
    \/ msg.type = "polytouch" /\ msg.note = 127
    \/ msg.type = "control_change" /\ msg.control = 0
    \/ msg.type = "control_change" /\ msg.control = 32
    \/ msg.type = "pitchwheel"

\* C9: an inbound message of none of the five known shapes is surfaced as
\* a diagnostic, raises nothing, calls no hook, and leaves the pending MSB
\* and the cached fader position as they were.
C9_Unclassified ==
    (last.op = "recv" /\ ~KnownShape(last.msg)) =>
        /\ diag = <<last.msg>>
        /\ calls = <<>>
        /\ err = "none"
        /\ Untouched

\* C10: for every name the registry resolves,
\* button_from_press(button_from_name(name).press) is button_from_name(name);
\* no two registered buttons share a press code, and no two share a light
\* code.
C10_RoundTrip ==
    /\ lookup.kind = "roundtrip" => lookup.back = lookup.button
    /\ \A i, j \in DOMAIN BUTTONS : BUTTONS[i].press = BUTTONS[j].press => i = j
    /\ \A i, j \in DOMAIN BUTTONS : BUTTONS[i].light = BUTTONS[j].light => i = j

C10_Witness ==
    /\ lookup.kind = "roundtrip"
    /\ lookup.name = lower(RecArmName)
    /\ lookup.button = [name |-> RecName, press |-> 16, light |-> 23]
    /\ lookup.back = lookup.button


(***************************************************************************)
(* button_from_name on every casing of every key, on a session in use.     *)
(***************************************************************************)
RECURSIVE Casings(_)
Casings(k) ==
    IF k = <<>> THEN {<<>>}
    ELSE {<<c>> \o t : c \in {lower_char(Head(k)), upper_char(Head(k))},
                       t \in Casings(Tail(k))}

AllCasings == UNION {Casings(k) : k \in DOMAIN _button_from_name}

NextCasing ==
    \/ /\ last.op = "init"
       /\ lookup = NoLookup
       /\ Open(0, SystemPorts, SystemPorts)
    \/ /\ last.op \in {"open", "recv"}
       /\ lookup = NoLookup
       /\ \E msg \in EncodeInbound : Dispatch(msg)
       /\ UNCHANGED <<inlog, hooklog>>
    \/ /\ lookup = NoLookup
       /\ \E name \in AllCasings \cup UnknownNames : LookupOf(name)

SpecCasing == Init /\ [][NextCasing]_vars

\* the registered button with this name
ButtonNamed(k) == CHOOSE b \in {BUTTONS[i] : i \in DOMAIN BUTTONS} : b.name = k

C11_Lookup ==
    lookup.kind = "name" =>
        LET keys == {k \in {BUTTONS[i].name : i \in DOMAIN BUTTONS} \cup {RecArmName} :
                        lower(k) = lower(lookup.name)}
        IN  IF keys # {}
            THEN /\ ~lookup.raised
                 /\ err = "none"
                 /\ \A k \in keys :
                        lookup.button =
                            ButtonNamed(IF k = RecArmName THEN RecName ELSE k)
            ELSE /\ lookup.raised
                 /\ err = "KeyError"

C11_Frame ==
    lookup' # lookup =>
        UNCHANGED <<inport, outport, callback, _fader, _msb, trace, last, pre>>

\* C11: button_from_name returns, for every registered name and for the
\* alias "Rec Arm" in any casing, the button of that name ("Rec Arm" giving
\* the button "Rec"); for any other name it raises KeyError; in either case
\* it sends nothing and changes nothing of the session.
C11_CaseInsensitiveLookup == [](C11_Lookup) /\ [][C11_Frame]_vars

C11_Witness ==
    /\ lookup.kind = "name"
    /\ lookup.name = <<"r","E","C"," ","a","R","m">>
    /\ lookup.button = [name |-> RecName, press |-> 16, light |-> 23]
    /\ callback
    /\ _fader = 1023


Digits == {"0","1","2","3","4","5","6","7","8","9"}
HexUpper == {"A","B","C","D","E","F"}
HexLower == {"a","b","c","d","e","f"}

\* the glyph of a supported character, as the source lists it
GlyphOf(ch) ==
    LET up == IF ch \in HexLower THEN upper_char(ch) ELSE ch
    IN  (CHOOSE r \in {CHARACTER_TABLE[i] : i \in DOMAIN CHARACTER_TABLE} :
            r.char = <<up>>).glyph

\* C12: for a supported character ('0'-'9', 'A'-'F', in either case) char_on
\* sends one light-on message for each index of the character's glyph, to
\* the light code of the button at that index (every index is in 0..23 and
\* occurs once), and no light-off message; char_on('0') lights exactly 15
\* indices; for any other character it sends nothing and raises nothing.
C12_CharOn ==
    last.op = "char_on" =>
        IF Len(last.c) = 1 /\ last.c[1] \in Digits \cup HexUpper \cup HexLower
        THEN LET g == GlyphOf(last.c[1])
             IN  /\ trace = [k \in DOMAIN g |-> Send(polytouch(BUTTONS[g[k] + 1].light, 1))]
                 /\ \A k \in DOMAIN g : g[k] \in 0..23
                 /\ \A k, l \in DOMAIN g : g[k] = g[l] => k = l
                 /\ last.c = <<"0">> => Len(trace) = 15
                 /\ err = "none"
                 /\ Untouched
        ELSE /\ trace = <<>>
             /\ err = "none"
             /\ Untouched

C12_Witness ==
    /\ last.op = "char_on"
    /\ last.c = <<"f">>
    /\ Len(sent) = 8
    /\ sent[1] = polytouch(18, 1)
    /\ sent[8] = polytouch(4, 1)


IsLightOff(e) ==
    /\ e.ev = "send"
    /\ e.msg.type = "polytouch"
    /\ e.msg.value = 0

\* C13: close() calls on_close, detaches the inbound handler, resets the
\* fader to 0 (control 0 = 0, then control 32 = 0), sends a light-off to
\* every registered button and releases both channels, in this order; then
\* the cached fader position is 0, every button's last light command is
\* off, and no inbound message is dispatched to a hook while the handler is
\* detached.
C13_CloseOrder ==
    /\ last.op = "close" =>
        LET n == Len(BUTTONS)
        IN  /\ Len(trace) >= n + 6
            /\ trace[1] = Hook(on_close)
            /\ trace[2] = Detach
            /\ trace[3] = Send(control_change(0, 0))
            /\ trace[4] = Send(control_change(32, 0))
            /\ \A k \in 5..(n + 4) : IsLightOff(trace[k])
            /\ \A i \in DOMAIN BUTTONS :
                   \E k \in 5..(n + 4) : trace[k].msg.note = BUTTONS[i].light
            /\ \A k \in (n + 5)..Len(trace) :
                   trace[k].ev = "send" => trace[k].msg.type = "reset"
            /\ trace[Len(trace) - 1] = ClosePort("inport")
            /\ trace[Len(trace)] = ClosePort("outport")
            /\ calls = <<on_close>>
            /\ _fader = 0
            /\ ~callback
            /\ ~inport.open
            /\ ~outport.open
    /\ last.op = "recv" => callback /\ inport.open
    /\ ~callback => calls \in {<<>>, <<on_close>>}

C13_Witness ==
    /\ last.op = "close"
    /\ pre.fader = 1023
    /\ _fader = 0
    /\ Len(sent) = Len(BUTTONS) + 3
    /\ ~callback


(***************************************************************************)
(* open() on several lists of port names and several numbers.              *)
(***************************************************************************)
MaxNumber == 2

FaderPortUpper == <<"F","A","D","E","R","P","O","R","T"," ","B">>
FaderOnly == <<"F","a","d","e","r">>

OpenPortLists ==
    {<<>>, <<MidiThrough>>, <<FaderOnly, MidiThrough>>,
     <<MidiThrough, FaderPortName>>,
     <<FaderPortUpper, MidiThrough, FaderPortName>>}

OpenAny ==
    \E number \in -1..MaxNumber, ins \in OpenPortLists, outs \in OpenPortLists :
        Open(number, ins, outs)

NextOpen ==
    \/ OpenAny
    \/ Close
    \/ \E msg \in EncodeInbound : Dispatch(msg) /\ UNCHANGED <<inlog, hooklog>>

SpecOpen == Init /\ [][NextOpen]_vars

\* the names of a list that start with 'faderport', whatever their case
Matching(names) == SelectSeq(names, IsFaderportName)

\* the selection the claim describes
Selected(number, names) ==
    IF number >= 0 /\ number < Len(Matching(names))
    THEN Matching(names)[number + 1]
    ELSE NoneName

\* C14: channel selection returns the N-th (0-indexed) available name that
\* starts with 'faderport', whatever its case, and none when there is no such
\* name at index N; when the selection of the input or of the output yields
\* none, open(N) fails: no channel is opened, no handler is registered and
\* on_open is not called.
C14_OpenFailsWithoutDevice ==
    last.op = "open" =>
        /\ find_faderport_name(last.number, last.ins) = Selected(last.number, last.ins)
        /\ find_faderport_name(last.number, last.outs) = Selected(last.number, last.outs)
        /\ (\/ Selected(last.number, last.ins) = NoneName
            \/ Selected(last.number, last.outs) = NoneName) =>
               /\ err # "none"
               /\ ~callback
               /\ ~inport.open
               /\ ~outport.open
               /\ trace = <<>>


\* C15: light_on(button) and light_off(button) each send exactly one
\* polytouch message to the button's light code, with value 1 and 0;
\* all_on() and all_off() send exactly one such message for every registered
\* button, 24 messages with every light code 0..23 addressed once; none of
\* them changes the pending MSB or the cached fader position.
C15_Lights ==
    /\ last.op = "light_on" =>
           /\ trace = <<Send(polytouch(last.button.light, 1))>>
           /\ Untouched
    /\ last.op = "light_off" =>
           /\ trace = <<Send(polytouch(last.button.light, 0))>>
           /\ Untouched
    /\ last.op \in {"all_on", "all_off"} =>
           LET v == IF last.op = "all_on" THEN 1 ELSE 0
           IN  /\ Len(trace) = 24
               /\ Len(BUTTONS) = 24
               /\ \A code \in 0..23 :
                      Cardinality({k \in DOMAIN trace :
                                      trace[k] = Send(polytouch(code, v))}) = 1
               /\ Untouched

C15_Witness ==
    /\ last.op = "all_on"
    /\ Len(sent) = 24
    /\ sent[1] = polytouch(21, 1)
    /\ sent[24] = polytouch(4, 1)
    /\ pre.fader = 1023
    /\ _fader = 1023


(***************************************************************************)
(* One session: the first MaxSticky inbound messages, with fader writes    *)
(* between them.                                                           *)
(***************************************************************************)
MaxSticky == 3

StickyInbound ==
    {control_change(FIELD_A, 10), control_change(FIELD_A, MAX_DATA),
     control_change(FIELD_B, 0), control_change(FIELD_B, 64),
     polytouch(0, 1), polytouch(FADER_TOUCH, 1), polytouch(24, 1), pitchwheel(-5)}

StickyWrites == {0, 512}

NextSticky ==
    \/ /\ last.op = "init"
       /\ Open(0, SystemPorts, SystemPorts)
    \/ \E msg \in StickyInbound :
        /\ Len(inlog) < MaxSticky
        /\ Dispatch(msg)
        /\ inlog' = Append(inlog, msg)
        /\ hooklog' = hooklog \o CallsOf(trace')
    \/ \E value \in StickyWrites : SetFader(value) /\ UNCHANGED <<inlog, hooklog>>

SpecSticky == Init /\ [][NextSticky]_vars

IsFieldA(msg) == msg.type = "control_change" /\ msg.control = 0
IsFieldB(msg) == msg.type = "control_change" /\ msg.control = 32

\* the pending MSB after the messages of log, m being pending before them:
\* the value of the last field A
RECURSIVE PendingAfter(_, _)
PendingAfter(log, m) ==
    IF Len(log) = 0 THEN m
    ELSE PendingAfter(Tail(log), IF IsFieldA(Head(log)) THEN Head(log).value ELSE m)

\* the on_fader calls of the messages of log, m being pending before them:
\* every field B combined with the value of the last field A before it
RECURSIVE StickyFaderCalls(_, _)
StickyFaderCalls(log, m) ==
    IF Len(log) = 0 THEN <<>>
    ELSE IF IsFieldA(Head(log)) THEN StickyFaderCalls(Tail(log), Head(log).value)
    ELSE IF IsFieldB(Head(log))
    THEN <<on_fader(Shr(BitOr(Shl(m, 7), Head(log).value), 4))>>
         \o StickyFaderCalls(Tail(log), m)
    ELSE StickyFaderCalls(Tail(log), m)

\* C16: the pending MSB is sticky: every field B is combined with the value
\* of the last field A received before it, however many field-B, button,
\* touch, rotary or unclassified messages and fader writes lie between, and
\* a combination leaves the pending MSB as it is.
C16_StickyMsb ==
    callback =>
        /\ FaderCalls = StickyFaderCalls(inlog, 0)
        /\ _msb = PendingAfter(inlog, 0)

C16_Witness ==
    /\ inlog = <<control_change(0, 10), control_change(32, 64), control_change(32, 0)>>
    /\ FaderCalls = <<on_fader(84), on_fader(80)>>
    /\ last.op = "recv"
    /\ pre.fader = 512
    /\ _msb = 10


(***************************************************************************)
(* Loopback: a position in range is written, and the two messages the      *)
(* write sent are delivered back in the order they were sent.  inlog holds *)
(* the messages of the write, hooklog the calls of their delivery.         *)
(***************************************************************************)
PendingBefore == {control_change(FIELD_A, 0), control_change(FIELD_A, MAX_DATA)}

NextRoundTrip ==
    \/ /\ last.op = "init"
       /\ Open(0, SystemPorts, SystemPorts)
    \/ /\ last.op = "open"
       /\ \E msg \in PendingBefore : Dispatch(msg)
       /\ UNCHANGED <<inlog, hooklog>>
    \/ /\ inlog = <<>>
       /\ \E value \in 0..(FADER_LIMIT - 1) : SetFader(value)
       /\ inlog' = SentOf(trace')
       /\ UNCHANGED hooklog
    \/ /\ last.op = "fader"
       /\ Dispatch(inlog[1])
       /\ UNCHANGED <<inlog, hooklog>>
    \/ /\ last.op = "recv"
       /\ Len(inlog) = 2
       /\ last.msg = inlog[1]
       /\ Len(hooklog) = 1
       /\ Dispatch(inlog[2])
       /\ hooklog' = hooklog \o CallsOf(trace')
       /\ UNCHANGED inlog

SpecRoundTrip == Init /\ [][NextRoundTrip]_vars

\* the position whose two fields are the messages of inlog
Written == inlog[1].value * 128 + inlog[2].value

RoundTripDone == Len(inlog) = 2 /\ Len(hooklog) = 2

\* the messages looped back are the encoding of the value written
Looped ==
    last.op = "fader" =>
        /\ last.value \in 0..1023
        /\ inlog = <<control_change(0, last.value \div 128),
                     control_change(32, last.value % 128)>>
        /\ Written = last.value

\* C17, as the spec states it: decoding the two fields of the encoding of V
\* in 0..1023, field A first, yields (V >> 4) << 4.
C17_Original ==
    RoundTripDone =>
        /\ _fader = (Written \div 16) * 16
        /\ FaderCalls = <<on_fader((Written \div 16) * 16)>>

\* C17, amended: decoding the two fields of the encoding of V in 0..1023,
\* field A = V >> 7 first and then field B = V & 0x7F, yields the position
\* V >> 4, whatever MSB was pending before.
C17_Amended ==
    /\ Looped
    /\ RoundTripDone =>
        /\ _fader = Written \div 16
        /\ FaderCalls = <<on_fader(Written \div 16)>>
        /\ _msb = Written \div 128

C17_Witness ==
    /\ RoundTripDone
    /\ Written = 1023
    /\ pre.msb = 7
    /\ _fader = 63
    /\ FaderCalls = <<on_fader(63)>>


(***************************************************************************)
(* Sessions one after another on the same object: open, the first MaxIn    *)
(* inbound messages of the session, close, and open again.                 *)
(***************************************************************************)
NextReopen ==
    \/ Open(0, SystemPorts, SystemPorts)
    \/ ReceiveLogged
    \/ Close

SpecReopen == Init /\ [][NextReopen]_vars

FirstIsFieldB == Len(inlog) = 1 /\ IsFieldB(inlog[1])

\* C18: the pending MSB and the cached position do not outlive a session:
\* a session opens with both at 0, so a field B with value b that is the
\* first message of a session, also of one opened after a close, is
\* combined with pending MSB 0 and yields position b >> 4.
C18_SessionStateDestroyed ==
    /\ (last.op = "open" /\ callback) => (_msb = 0 /\ _fader = 0)
    /\ FirstIsFieldB =>
        /\ pre.msb = 0
        /\ _fader = inlog[1].value \div 16
        /\ FaderCalls = <<on_fader(inlog[1].value \div 16)>>


(***************************************************************************)
(* Two threads.  The transport delivers inbound messages on its own        *)
(* thread, each delivery running to completion; the application thread     *)
(* writes the fader, and its setter is three statements, each of which     *)
(* reads or writes self._fader, with nothing held between them.            *)
(***************************************************************************)

\* self._fader = int(value) if 0 < value < 1024 else 0
SetterAssign(value) ==
    /\ outport.open
    /\ writer.pc \in {"idle", "done"}
    /\ writer' = [pc |-> "assigned", value |-> value, sent |-> <<>>]
    /\ last' = [op |-> "fader_assign", value |-> value]
    /\ pre' = Self
    /\ _fader' = clamp(value)
    /\ trace' = <<>>
    /\ err' = "none"
    /\ UNCHANGED <<inport, outport, callback, _msb, lookup>>

\* self.outport.send(... control=0, value=self._fader >> 7)
SetterSendA ==
    LET m == control_change(FIELD_A, Shr(_fader, MSB_SHIFT))
    IN  /\ writer.pc = "assigned"
        /\ writer' = [writer EXCEPT !.pc = "sent_a", !.sent = <<m>>]
        /\ last' = [op |-> "fader_send_a"]
        /\ pre' = Self
        /\ trace' = <<Send(m)>>
        /\ err' = "none"
        /\ UNCHANGED <<inport, outport, callback, _fader, _msb, lookup>>

\* self.outport.send(... control=32, value=self._fader & 0x7F)
SetterSendB ==
    LET m == control_change(FIELD_B, BitAnd(_fader, LSB_MASK))
    IN  /\ writer.pc = "sent_a"
        /\ writer' = [writer EXCEPT !.pc = "done", !.sent = Append(writer.sent, m)]
        /\ last' = [op |-> "fader_send_b"]
        /\ pre' = Self
        /\ trace' = <<Send(m)>>
        /\ err' = "none"
        /\ UNCHANGED <<inport, outport, callback, _fader, _msb, lookup>>

ConcurrentWrites == {1, 300, 1023}

NextConcurrent ==
    \/ /\ last.op = "init"
       /\ Open(0, SystemPorts, SystemPorts)
    \/ ReceiveLogged
    \/ \E value \in ConcurrentWrites :
        SetterAssign(value) /\ UNCHANGED <<inlog, hooklog>>
    \/ SetterSendA /\ UNCHANGED <<inlog, hooklog>>
    \/ SetterSendB /\ UNCHANGED <<inlog, hooklog>>

SpecConcurrent == Init /\ [][NextConcurrent]_vars

DecodedPositions == {FaderCalls[i].num : i \in 1..Len(FaderCalls)}

\* C19: a fader write of a valid value V, interleaved in any way with the
\* delivery of inbound field-A and field-B messages on the transport's
\* thread, sends field A = V >> 7 and then field B = V & 0x7F, both halves
\* derived from V, and leaves the cached position either V or a decoded
\* inbound position.
C19_Synchronized ==
    (writer.pc = "done" /\ writer.value \in 1..1023) =>
        /\ writer.sent = <<control_change(0, writer.value \div 128),
                           control_change(32, writer.value % 128)>>
        /\ _fader \in {writer.value} \cup DecodedPositions


\* C20: in every reachable state, after any sequence of open, close, inbound
\* messages with field values in 0..127 and fader writes of any integer, the
\* cached fader position is in 0..1023 and the pending MSB in 0..127; every
\* value passed to on_fader is in 0..1023 and every outbound control value
\* is in 0..127.
C20_Ranges ==
    /\ _fader \in 0..1023
    /\ _msb \in 0..127
    /\ \A i \in 1..Len(calls) :
        calls[i].hook = "on_fader" => calls[i].num \in 0..1023
    /\ \A i \in 1..Len(sent) :
        sent[i].type = "control_change" => sent[i].value \in 0..127

C20_Witness ==
    /\ ReceivedB
    /\ last.msg.value = 127
    /\ pre.msb = 127
    /\ pre.fader = 1023
    /\ _fader = 1023
    /\ calls = <<on_fader(1023)>>

====
